---- MODULE Spec2Model ----
(***************************************************************************)
(* Model of yc-news-list/ycn.py: the fetch -> parse -> pair rows -> sink   *)
(* pipeline of the news-listing scraper.                                   *)
(*                                                                         *)
(* A table row (bs4 Tag) is represented by its text content.  Positions    *)
(* are 0-based as in the Python source; rows[p + 1] is the row at Python   *)
(* position p.  header_rows and meta_rows hold the POSITIONS of the rows   *)
(* the code put in the two lists, so that positional claims can be stated. *)
(***************************************************************************)
EXTENDS Integers, Naturals, Sequences, FiniteSets, TLC

\* ---- bounds -------------------------------------------------------------
MaxRows == 7

\* ---- domains ------------------------------------------------------------
\* text content of a <tr>: empty, whitespace only, or some visible text
Texts == {"", " ", "x"}
\* HTTP status codes returned by requests.get
Statuses == {200, 404}

RECURSIVE SeqsUpTo(_)
SeqsUpTo(n) ==
    IF n = 0 THEN {<<>>}
    ELSE LET shorter == SeqsUpTo(n - 1)
         IN  shorter \cup {Append(s, t) : s \in {q \in shorter : Len(q) = n - 1}, t \in Texts}

\* Python None, as a document value
None == [kind |-> "None", rows |-> <<>>]

\* response.text: an empty body, a document without <table>, or a document
\* whose first table has the given <tr> rows
Documents ==
    {[kind |-> "empty", rows |-> <<>>], [kind |-> "notable", rows |-> <<>>]}
    \cup {[kind |-> "table", rows |-> r] : r \in SeqsUpTo(MaxRows)}

Msg(s) == [msg |-> s, arg |-> -1]
MsgN(s, n) == [msg |-> s, arg |-> n]

VARIABLES
    pc,            \* position of main: start, fetched, parsed, indexed, done, fault
    status,        \* response.status_code
    doc,           \* response.text
    html_content,  \* what get_html_content returned
    parsed,        \* parse_news_data has been called and has returned or raised
    header_rows,   \* positions of the rows in header_rows
    meta_rows,     \* positions of the rows in meta_rows
    fault,         \* exception that ended the run: none, IndexError, TypeError, ...
    log,           \* lines printed to the console by the pipeline
    printed,       \* items printed by print_news_items
    csv,           \* file written by save_news_to_csv
    filename       \* filename computed at the end of main

vars == <<pc, status, doc, html_content, parsed, header_rows, meta_rows,
          fault, log, printed, csv, filename>>

\* ---- get_html_content ---------------------------------------------------
GetHtmlContentAny(st, d) == d

GetHtmlContent(st, d) == IF st = 200 THEN d ELSE None

\* ---- truthiness ---------------------------------------------------------
\* str truthiness: the empty string is falsy
StrBool(tag) == tag # ""

\* bs4 Tag.__bool__: a Tag is truthy whatever its contents
TagBool(tag) == TRUE

HtmlAlways(c) == TRUE

\* `if html_content:` -- None and the empty string are falsy
HtmlTruthy(c) == c.kind \notin {"None", "empty"}

\* ---- parse_news_data ----------------------------------------------------
NextIndexTwo(i) == i + 2

\* range(0, len(rows), 3)
NextIndex(i) == i + 3

HasMetaNeedsSpacer(i, n) == i + 2 < n

\* if i + 1 < len(rows)
HasMeta(i, n) == i + 1 < n

MetaOfSame(i) == i

\* meta_row = rows[i + 1]
MetaOf(i) == i + 1

PrependRow(s, e) == <<e>> \o s

\* list.append
AppendRow(s, e) == Append(s, e)

RECURSIVE PairLoop(_, _, _)
PairLoop(i, n, acc) ==
    IF i >= n THEN acc
    ELSE PairLoop(NextIndex(i), n,
                  IF HasMeta(i, n)
                  THEN [h |-> AppendRow(acc.h, i), m |-> AppendRow(acc.m, MetaOf(i))]
                  ELSE acc)

\* list(filter(None, xs)) over a list of Tags
FilterNone(xs, rows) == SelectSeq(xs, LAMBDA p : TagBool(rows[p + 1]))

NoTableRaises ==
    [header_rows |-> <<>>, meta_rows |-> <<>>, raised |-> "ParseError",
     log |-> <<Msg("Could not find news table")>>]

\* if not news_table: print(...); return [], []
NoTableResult ==
    [header_rows |-> <<>>, meta_rows |-> <<>>, raised |-> "none",
     log |-> <<Msg("Could not find news table")>>]

\* if not rows: print(...); return [], []
NoRowsResult ==
    [header_rows |-> <<>>, meta_rows |-> <<>>, raised |-> "none",
     log |-> <<Msg("Found news table..."), Msg("Could not find news rows")>>]

parse_news_data(c) ==
    IF c.kind = "None"
    THEN \* BeautifulSoup(None, ...) raises TypeError
         [header_rows |-> <<>>, meta_rows |-> <<>>, raised |-> "TypeError", log |-> <<>>]
    ELSE IF c.kind # "table" THEN NoTableResult
    ELSE IF Len(c.rows) = 0 THEN NoRowsResult
    ELSE LET n == Len(c.rows)
             acc == PairLoop(0, n, [h |-> <<>>, m |-> <<>>])
         IN  [header_rows |-> FilterNone(acc.h, c.rows),
              meta_rows |-> FilterNone(acc.m, c.rows),
              raised |-> "none",
              log |-> <<Msg("Found news table..."), MsgN("Found news items", n)>>]

\* ---- sinks --------------------------------------------------------------
Min(a, b) == IF a < b THEN a ELSE b

\* zip(header_rows, meta_rows)
Zip(hs, ms) == [k \in 1..Min(Len(hs), Len(ms)) |-> <<hs[k], ms[k]>>]

\* get_title_from_news_element: news_element.text.strip()
get_title_from_news_element(t) == IF t = " " THEN "" ELSE t

NoFile == [written |-> FALSE, head |-> <<>>, body |-> <<>>]

NoPrint == [called |-> FALSE, items |-> <<>>]

\* ---- initial state ------------------------------------------------------
Init ==
    /\ pc = "start"
    /\ status = 0
    /\ doc = None
    /\ html_content = None
    /\ parsed = FALSE
    /\ header_rows = <<>>
    /\ meta_rows = <<>>
    /\ fault = "none"
    /\ log = <<>>
    /\ printed = NoPrint
    /\ csv = NoFile
    /\ filename = ""

\* ---- main ---------------------------------------------------------------
\* html_content = get_html_content(YC_NEWS_URL)
Fetch ==
    /\ pc = "start"
    /\ \E st \in Statuses, d \in Documents :
          /\ status' = st
          /\ doc' = d
          /\ html_content' = GetHtmlContent(st, d)
          /\ log' = IF st = 200 THEN log
                    ELSE Append(log, Msg("Failed to get response"))
    /\ pc' = "fetched"
    /\ UNCHANGED <<parsed, header_rows, meta_rows, fault, printed, csv, filename>>

\* if html_content: header_rows, meta_rows = parse_news_data(html_content)
MainParse ==
    /\ pc = "fetched"
    /\ HtmlTruthy(html_content)
    /\ LET r == parse_news_data(html_content)
       IN  /\ parsed' = TRUE
           /\ header_rows' = r.header_rows
           /\ meta_rows' = r.meta_rows
           /\ log' = log \o r.log
           /\ fault' = r.raised
           /\ pc' = IF r.raised = "none" THEN "parsed" ELSE "fault"
    /\ UNCHANGED <<status, doc, html_content, printed, csv, filename>>

\* if html_content: is false -- main returns
MainSkip ==
    /\ pc = "fetched"
    /\ ~HtmlTruthy(html_content)
    /\ pc' = "done"
    /\ UNCHANGED <<status, doc, html_content, parsed, header_rows, meta_rows,
                   fault, log, printed, csv, filename>>

\* print(header_rows[1])
MainIndex ==
    /\ pc = "parsed"
    /\ IF Len(header_rows) >= 2
       THEN /\ log' = Append(log, MsgN("header_rows[1]", header_rows[2]))
            /\ pc' = "indexed"
            /\ fault' = fault
       ELSE /\ fault' = "IndexError"
            /\ pc' = "fault"
            /\ log' = log
    /\ UNCHANGED <<status, doc, html_content, parsed, header_rows, meta_rows,
                   printed, csv, filename>>

\* if header_rows and meta_rows: filename = f"yc_news_{dt_string}.csv"
MainFinish ==
    /\ pc = "indexed"
    /\ filename' = IF Len(header_rows) > 0 /\ Len(meta_rows) > 0
                   THEN "yc_news_dt.csv" ELSE filename
    /\ pc' = "done"
    /\ UNCHANGED <<status, doc, html_content, parsed, header_rows, meta_rows,
                   fault, log, printed, csv>>

\* ---- sinks, applied to the pair parse_news_data returned ----------------
\* (main's own calls are commented out at lines 122 and 129)
print_news_items ==
    /\ parsed
    /\ fault # "TypeError"
    /\ ~printed.called
    /\ printed' = [called |-> TRUE, items |-> Zip(header_rows, meta_rows)]
    /\ log' = Append(log, Msg("Printing news items..."))
    /\ UNCHANGED <<pc, status, doc, html_content, parsed, header_rows, meta_rows,
                   fault, csv, filename>>

save_news_to_csv ==
    /\ parsed
    /\ fault # "TypeError"
    /\ ~csv.written
    /\ csv' = [written |-> TRUE, head |-> <<"header", "meta">>,
               body |-> Zip(header_rows, meta_rows)]
    /\ log' = Append(log, Msg("News data saved"))
    /\ UNCHANGED <<pc, status, doc, html_content, parsed, header_rows, meta_rows,
                   fault, printed, filename>>

Next ==
    \/ Fetch
    \/ MainParse
    \/ MainSkip
    \/ MainIndex
    \/ MainFinish
    \/ print_news_items
    \/ save_news_to_csv

Spec == Init /\ [][Next]_vars

\* ---- properties ---------------------------------------------------------
\* rows of the parsed document and their number
RowCount == Len(doc.rows)
RowText(p) == doc.rows[p + 1]

\* every record handed to a sink, as a pair <<header position, meta position>>
Records == Zip(header_rows, meta_rows)
Emitted ==
    {Records[k] : k \in 1..Len(Records)}
    \cup {printed.items[k] : k \in 1..Len(printed.items)}
    \cup {csv.body[k] : k \in 1..Len(csv.body)}

LogHas(s) == \E k \in 1..Len(log) : log[k] = Msg(s)

\* header rows (positions 0, 3, 6, ...) all have non-empty text
HeadersNonEmpty ==
    \A p \in 0..(RowCount - 1) :
        p % 3 = 0 => get_title_from_news_element(RowText(p)) # ""

\* C1: every record handed to a sink has its header at a position p with
\* p mod 3 = 0 and its meta at position p + 1 of the same row sequence, also
\* after the two truthiness filters.
C1_PairedPositions ==
    parsed =>
        \A r \in Emitted :
            /\ r[1] % 3 = 0
            /\ r[2] = r[1] + 1
            /\ r[1] >= 0
            /\ r[2] < RowCount

\* a record whose header row is empty has been printed next to another one
C1_Witness ==
    /\ printed.called
    /\ Len(printed.items) >= 2
    /\ \E k \in 1..Len(printed.items) : RowText(printed.items[k][1]) = ""

\* C2: a row sequence whose length n is a multiple of 3 and whose headers are
\* non-empty gives exactly n/3 records, the k-th pairing row 3k with row 3k+1.
C2_FullGroups ==
    (parsed /\ doc.kind = "table" /\ RowCount % 3 = 0 /\ HeadersNonEmpty) =>
        /\ Len(header_rows) = RowCount \div 3
        /\ Len(meta_rows) = RowCount \div 3
        /\ \A k \in 0..((RowCount \div 3) - 1) :
              /\ header_rows[k + 1] = 3 * k
              /\ meta_rows[k + 1] = 3 * k + 1

C2_Witness ==
    /\ parsed
    /\ RowCount = 6
    /\ HeadersNonEmpty
    /\ Len(header_rows) = 2

\* C3: with non-empty headers, length 3k+1 gives k records and the lone
\* trailing header appears nowhere in the output; length 3k+2 gives k+1
\* records; 2 rows give 1 record and 1 row gives none.
C3_TrailingWindow ==
    (parsed /\ doc.kind = "table" /\ HeadersNonEmpty) =>
        /\ RowCount % 3 = 1 =>
              /\ Len(Records) = RowCount \div 3
              /\ \A k \in 1..Len(header_rows) : header_rows[k] # RowCount - 1
              /\ \A k \in 1..Len(meta_rows) : meta_rows[k] # RowCount - 1
        /\ RowCount % 3 = 2 =>
              /\ Len(Records) = (RowCount \div 3) + 1
              /\ Records[Len(Records)] = <<RowCount - 2, RowCount - 1>>
        /\ RowCount = 2 => Len(Records) = 1
        /\ RowCount = 1 => Len(Records) = 0

C3_Witness ==
    /\ parsed
    /\ HeadersNonEmpty
    /\ RowCount = 4
    /\ Len(header_rows) = 1
    /\ Len(meta_rows) = 1

\* C4: no emitted record has an empty title, and an empty header row at
\* position 3k is absent from the output together with its meta row 3k+1.
C4_NoEmptyTitle ==
    parsed =>
        /\ \A r \in Emitted : get_title_from_news_element(RowText(r[1])) # ""
        /\ \A p \in 0..(RowCount - 1) :
              (p % 3 = 0 /\ get_title_from_news_element(RowText(p)) = "") =>
                  /\ \A k \in 1..Len(header_rows) : header_rows[k] # p
                  /\ \A k \in 1..Len(meta_rows) : meta_rows[k] # p + 1

\* C5: records are emitted in the order of their source rows and the index
\* of a record (its place in the output) is the number of records emitted
\* from earlier rows: 0, 1, ..., m-1 without gaps; a dropped group takes none.
C5_OrderAndIndex ==
    parsed =>
        /\ \A j, k \in 1..Len(header_rows) : j < k => header_rows[j] < header_rows[k]
        /\ \A j, k \in 1..Len(meta_rows) : j < k => meta_rows[j] < meta_rows[k]
        /\ \A k \in 1..Len(Records) :
              Cardinality({j \in 1..Len(Records) : Records[j][1] < Records[k][1]}) = k - 1
        /\ csv.written => csv.body = Records
        /\ printed.called => printed.items = Records

\* two records emitted after a trailing group without a meta row was dropped
C5_Witness ==
    /\ parsed
    /\ RowCount = 7
    /\ Len(Records) = 2
    /\ csv.written
    /\ Len(csv.body) = 2

\* C6: a table with zero rows gives empty header and meta lists without a
\* fault, and a fetched document that is None is never passed to the parser.
C6_EmptyAndNone ==
    /\ (parsed /\ doc.kind = "table" /\ RowCount = 0) =>
          /\ header_rows = <<>>
          /\ meta_rows = <<>>
          /\ fault \in {"none", "IndexError"}
          /\ (pc = "parsed" => fault = "none")
    /\ parsed => html_content.kind # "None"
    /\ fault # "TypeError"
    /\ (html_content.kind = "None" /\ pc = "done") => ~parsed

C6_Witness ==
    /\ parsed
    /\ pc = "parsed"
    /\ doc.kind = "table"
    /\ RowCount = 0
    /\ header_rows = <<>>

\* C7: after a non-success status the failure is reported and the run ends
\* without extraction; parse_news_data is called only after a fetch that
\* returned status 200 with document text.
C7_ParseOnlyAfter200 ==
    /\ parsed => (status = 200 /\ html_content = doc /\ doc.kind \notin {"None", "empty"})
    /\ (pc # "start" /\ status # 200) =>
          /\ ~parsed
          /\ html_content = None
          /\ LogHas("Failed to get response")
          /\ pc \in {"fetched", "done"}

C7_Witness ==
    /\ status = 404
    /\ doc.kind = "table"
    /\ RowCount = 3
    /\ pc = "done"
    /\ ~parsed

\* C8 as stated: a document with no table is an error outcome that the caller
\* can tell from the valid empty row sequence by what the parse step returns.
C8_Original ==
    (parsed /\ doc.kind = "notable") =>
        ~(header_rows = <<>> /\ meta_rows = <<>> /\ fault = "none" /\ pc = "parsed")

\* C8 amended: parse_news_data returns the same pair of empty lists, without
\* raising, for a document with no table and for a table with zero rows; the
\* two cases differ only in the line printed to the console.
C8_SameEmptyPair ==
    (parsed /\ (doc.kind = "notable" \/ (doc.kind = "table" /\ RowCount = 0))) =>
        /\ header_rows = <<>>
        /\ meta_rows = <<>>
        /\ fault \in {"none", "IndexError"}
        /\ (fault = "IndexError" => pc = "fault")
        /\ pc \in {"parsed", "fault"}
        /\ doc.kind = "notable" =>
              (LogHas("Could not find news table") /\ ~LogHas("Could not find news rows"))
        /\ doc.kind = "table" =>
              (LogHas("Could not find news rows") /\ ~LogHas("Could not find news table"))

C8_Witness ==
    /\ parsed
    /\ pc = "parsed"
    /\ doc.kind = "notable"
    /\ header_rows = <<>>
    /\ meta_rows = <<>>

\* C9: header_rows and meta_rows always have the same length, so zip drops
\* nothing, and the CSV file is the row ("header", "meta") followed by exactly
\* one row per extracted record.
C9_OneRowPerRecord ==
    parsed =>
        /\ Len(header_rows) = Len(meta_rows)
        /\ csv.written =>
              /\ csv.head = <<"header", "meta">>
              /\ Len(csv.body) = Len(header_rows)
              /\ Len(csv.body) = Len(meta_rows)
              /\ \A k \in 1..Len(csv.body) : csv.body[k] = <<header_rows[k], meta_rows[k]>>
        /\ printed.called =>
              /\ Len(printed.items) = Len(header_rows)
              /\ Len(printed.items) = Len(meta_rows)

\* a file with two records, one of which has an empty header row
C9_Witness ==
    /\ csv.written
    /\ Len(csv.body) = 2
    /\ \E k \in 1..Len(csv.body) : RowText(csv.body[k][1]) = ""
    /\ \E k \in 1..Len(csv.body) : RowText(csv.body[k][2]) # ""

\* C10: after a successful fetch main never ends in an unhandled fault,
\* whatever the row structure, including where it reads header_rows[1].
C10_NoFault ==
    (status = 200 /\ html_content.kind # "None") => (fault = "none" /\ pc # "fault")

====
